---- MODULE Spec2Model ----
(***************************************************************************)
(* A model of src/quant.py: the "Scientific Correlation Analyzer".         *)
(*                                                                         *)
(* One behaviour of Spec is one press of the "Run Comprehensive Analysis"  *)
(* button of main(): feature filtering, the live per-pair loop, the        *)
(* display loop, then generate_report() with its own filtering, its        *)
(* try/except loop and doc.build.                                          *)
(*                                                                         *)
(* Numbers.  Every cell of a dataset is an integer multiple of a grid of   *)
(* 5e-7, so that the threshold 1e-6 of the variance filter is Eps = 2 grid *)
(* units.  All statistics are computed exactly over the rationals:         *)
(*   - a variance is a pair num/den;                                       *)
(*   - a correlation r is kept as its sign and its square n2/d, because r  *)
(*     itself is in general irrational: r = sgn * sqrt(n2/d);              *)
(*   - a value rounded to 4 decimals is an integer count of 1e-4.          *)
(* The code computes in IEEE doubles; the model agrees with it wherever    *)
(* the exact value is not within a rounding error of a threshold, and the  *)
(* datasets below keep clear of such values.  NaN is modelled explicitly   *)
(* (every comparison with NaN is false).                                   *)
(***************************************************************************)
EXTENDS Integers, Sequences, FiniteSets, TLC

VARIABLES
    df,          \* main: data_df after read_csv + dropna (sequence of columns)
    y_feature,   \* main: the selected target column name
    pc,          \* position of the run inside main / generate_report
    x_features,  \* main: the list built at lines 301-311
    i,           \* index of the loop that is running (1-based)
    results,     \* main: the list of result dicts (lines 318-334)
    shown,       \* what the display loop has put on the page (lines 337-374)
    rx_features, \* generate_report: its own x_features (lines 128-143)
    story,       \* generate_report: the sections appended so far
    pdf,         \* the document written by doc.build, if any
    files,       \* chart files on disk: file name -> chart content
    errors,      \* st.error messages shown
    exc,         \* the exception that left main uncaught, "" if none
    calls,       \* number of perform_analysis invocations in this run
    faults,      \* number of I/O failures the environment has injected
    unread,      \* file names written in this run and not yet consumed
    r_in,        \* SpecClassify: the two values of r being classified
    labels       \* SpecClassify: their labels, <<>> before Classify

vars == <<df, y_feature, pc, x_features, i, results, shown, rx_features,
          story, pdf, files, errors, exc, calls, faults, unread, r_in, labels>>

pipeVars == <<df, y_feature, pc, x_features, i, results, shown, rx_features,
              story, pdf, files, errors, exc, calls, faults, unread>>

-----------------------------------------------------------------------------
(* Bounds of the model *)

\* an uploaded CSV has at most MaxCols columns
MaxCols == 3

\* the environment makes at most MaxFaults chart writes fail (disk, permissions)
MaxFaults == 1

\* SpecClassify draws r from { k / RGrid : -RGrid <= k <= RGrid }
RGrid == 100

(* Program constants *)

\* 1e-6, the variance threshold of lines 140 and 309, in grid units of 5e-7
Eps == 2

\* head(5), line 80
HeadRows == 5

\* round(4) and :.4f of lines 83, 112, 116: 10^4 steps per unit
Round4Scale == 10000

-----------------------------------------------------------------------------
(* Exact arithmetic *)

RECURSIVE SumSeq(_)
SumSeq(s) == IF s = <<>> THEN 0 ELSE Head(s) + SumSeq(Tail(s))

Abs(n) == IF n < 0 THEN -n ELSE n

Sign(n) == IF n < 0 THEN -1 ELSE IF n > 0 THEN 1 ELSE 0

\* Compare a/b with c/d (a, c >= 0, b, d > 0): -1, 0 or 1.  Done on the
\* continued fractions, so that no product is formed.
RECURSIVE Cmp(_, _, _, _)
Cmp(a, b, c, d) ==
    LET qa == a \div b
        qc == c \div d
        ra == a % b
        rc == c % d
    IN  IF qa # qc THEN (IF qa < qc THEN -1 ELSE 1)
        ELSE IF ra = 0 /\ rc = 0 THEN 0
        ELSE IF ra = 0 THEN -1
        ELSE IF rc = 0 THEN 1
        ELSE Cmp(d, rc, b, ra)

\* NaN and real values of a correlation: r = sgn * sqrt(n2 / d)
NaN == [nan |-> TRUE, sgn |-> 0, n2 |-> 0, d |-> 1]

Real(s, n2, d) == [nan |-> FALSE, sgn |-> IF n2 = 0 THEN 0 ELSE s, n2 |-> n2, d |-> d]

\* a value rounded to 4 decimals: v counts 1e-4
NaN4 == [nan |-> TRUE, v |-> 0]

-----------------------------------------------------------------------------
(* Datasets *)

Col(name, dtype, vals) == [name |-> name, dtype |-> dtype, vals |-> vals]

\* The columns CSV files of the model are made of, four rows each.
ObservationID == Col("ObservationID", "int64", <<1, 2, 3, 4>>)
LoadTime_s == Col("LoadTime_s", "int64", <<1, 6, 18, 37>>)
SatisfactionScore_100 == Col("SatisfactionScore_100", "int64", <<82, 64, 75, 58>>)
ConstantFeature == Col("ConstantFeature", "int64", <<10, 10, 10, 10>>)
RandomNoise == Col("RandomNoise", "int64", <<76, 173, 612, 268>>)
Notes == Col("Notes", "object", <<0, 0, 0, 0>>)
Jitter == Col("Jitter", "int64", <<0, 3, 0, 4>>)
SlashCol == Col("a/b", "int64", <<5, 1, 4, 2>>)

Catalogue ==
    <<ObservationID, LoadTime_s, SatisfactionScore_100, ConstantFeature,
      RandomNoise, Notes, Jitter, SlashCol>>

\* row counts left after dropna
RowCounts == {0, 1, 2, 4}

Prefix(c, n) == Col(c.name, c.dtype, SubSeq(c.vals, 1, n))

\* the dataset main() creates when the sample file is missing (lines 251-257),
\* reduced to four rows
SampleDataset ==
    <<ObservationID, LoadTime_s, SatisfactionScore_100, ConstantFeature, RandomNoise>>

\* sequences of 1..MaxCols distinct catalogue columns
RECURSIVE Picks(_)
Picks(k) ==
    IF k = 0 THEN {<<>>}
    ELSE LET shorter == Picks(k - 1)
         IN  shorter \cup
             { Append(s, c) : s \in { t \in shorter : Len(t) = k - 1 },
                              c \in 1..Len(Catalogue) }

Distinct(s) == \A a, b \in 1..Len(s) : a # b => s[a] # s[b]

UploadedDatasets ==
    { [k \in 1..Len(s) |-> Prefix(Catalogue[s[k]], n)] :
        s \in { t \in Picks(MaxCols) : t # <<>> /\ Distinct(t) },
        n \in RowCounts }

Datasets == {SampleDataset} \cup UploadedDatasets

NRows(d) == Len(d[1].vals)

ColumnNames(d) == [k \in 1..Len(d) |-> d[k].name]

Column(d, name) == d[CHOOSE k \in 1..Len(d) : d[k].name = name]

\* pd.api.types.is_numeric_dtype
is_numeric_dtype(c) == c.dtype \in {"int64", "float64", "bool"}

\* str.lower() on the column names that occur
lower(name) ==
    CASE name = "ObservationID" -> "observationid"
      [] name = "LoadTime_s" -> "loadtime_s"
      [] name = "SatisfactionScore_100" -> "satisfactionscore_100"
      [] name = "ConstantFeature" -> "constantfeature"
      [] name = "RandomNoise" -> "randomnoise"
      [] name = "Notes" -> "notes"
      [] name = "Jitter" -> "jitter"
      [] OTHER -> name

\* the list of lines 136 and 307
IdNames == {"id", "observationid", "rowid", "index"}

\* y_feature when the selectbox has no option (no numeric column)
NoTarget == "None"

\* the options of the selectbox, lines 283-288
numeric_columns(d) ==
    SelectSeq(ColumnNames(d), LAMBDA n : is_numeric_dtype(Column(d, n)))

TargetChoices(d) ==
    IF numeric_columns(d) = <<>> THEN {NoTarget}
    ELSE { numeric_columns(d)[k] : k \in 1..Len(numeric_columns(d)) }

-----------------------------------------------------------------------------
(* Library calls: pandas Series.std and Series.corr, numpy round *)

\* the squared deviations from the mean, summed, times n^2:
\* (x - mean)^2 = (n*x - total)^2 / n^2
SqDev(c) ==
    LET n == Len(c.vals)
        total == SumSeq(c.vals)
    IN  SumSeq([k \in 1..n |-> (n * c.vals[k] - total) * (n * c.vals[k] - total)])

\* Series.std(): the sample standard deviation (ddof = 1), as pandas' nanvar
\* computes it: the squared deviations from the mean, summed, over n - 1.
\* Returned as the variance num/den; NaN when n - 1 <= 0.
std(c) ==
    LET n == Len(c.vals)
    IN  IF n - 1 <= 0 THEN [nan |-> TRUE, num |-> 0, den |-> 1]
        ELSE [nan |-> FALSE, num |-> SqDev(c), den |-> n * n * (n - 1)]

\* the same test on the population standard deviation (ddof = 0)
StdBelowEps_ddof0(c) ==
    LET n == Len(c.vals)
    IN  n >= 1 /\ SqDev(c) < Eps * Eps * n * n * n

\* df[col].std() < 1e-6, lines 140 and 309 (false for NaN)
StdBelowEps(c) == ~std(c).nan /\ std(c).num < Eps * Eps * std(c).den

\* Series.corr(): Pearson's r of two columns (numpy.corrcoef); NaN when a
\* variance is zero or when there are fewer than two rows.
corr(cx, cy) ==
    LET n == Len(cx.vals)
        sx == SumSeq(cx.vals)
        sy == SumSeq(cy.vals)
        sxy == n * SumSeq([k \in 1..n |-> cx.vals[k] * cy.vals[k]]) - sx * sy
        qx == n * SumSeq([k \in 1..n |-> cx.vals[k] * cx.vals[k]]) - sx * sx
        qy == n * SumSeq([k \in 1..n |-> cy.vals[k] * cy.vals[k]]) - sy * sy
    IN  IF n < 2 \/ qx = 0 \/ qy = 0 THEN NaN
        ELSE Real(Sign(sxy), sxy * sxy, qx * qy)

\* the largest k in lo..hi with (2k - 1)/(2*Round4Scale) <= sqrt(n2/d); lo is one
RECURSIVE RoundSearch(_, _, _, _)
RoundSearch(lo, hi, n2, d) ==
    IF lo = hi THEN lo
    ELSE LET mid == (lo + hi + 1) \div 2
         IN  IF Cmp((2 * mid - 1) * (2 * mid - 1), 4 * Round4Scale * Round4Scale, n2, d) <= 0
             THEN RoundSearch(mid, hi, n2, d)
             ELSE RoundSearch(lo, mid - 1, n2, d)

\* x.round(4): the nearest multiple of 1e-4, a tie going to the even one
round4(r) ==
    IF r.nan THEN NaN4
    ELSE LET up == RoundSearch(0, Round4Scale, r.n2, r.d)
             tie == up > 0 /\
                    Cmp((2 * up - 1) * (2 * up - 1), 4 * Round4Scale * Round4Scale, r.n2, r.d) = 0
             k == IF tie /\ up % 2 = 1 THEN up - 1 ELSE up
         IN  [nan |-> FALSE, v |-> r.sgn * k]

-----------------------------------------------------------------------------
(* perform_analysis and generate_plot *)

\* names under which plt.savefig cannot create a file: they hold a path separator
HasPathSeparator(name) == name = "a/b"

\* line 58
chart_filename(x_col, y_col) == "plot_" \o x_col \o "_vs_" \o y_col \o ".png"

\* generate_plot, lines 56-70: the chart of the pair, titled with the rounded r,
\* saved under the pair's file name.  savefig raises when the path cannot be
\* written (io_fault: the environment refuses the write).
generate_plot(x_col, y_col, r_value, io_fault) ==
    [raised |-> io_fault \/ HasPathSeparator(x_col) \/ HasPathSeparator(y_col),
     path |-> chart_filename(x_col, y_col),
     chart |-> [x |-> x_col, y |-> y_col, r |-> r_value]]

\* the bands with strict comparisons
strength_gt(r) ==
    IF ~r.nan /\ Cmp(r.n2, r.d, 49, 100) > 0 THEN "strong"
    ELSE IF ~r.nan /\ Cmp(r.n2, r.d, 9, 100) > 0 THEN "moderate"
    ELSE "weak or negligible"

\* lines 86-98: r_abs >= 0.7, r_abs >= 0.3, compared on the squares
strength(r) ==
    IF ~r.nan /\ Cmp(r.n2, r.d, 49, 100) >= 0 THEN "strong"
    ELSE IF ~r.nan /\ Cmp(r.n2, r.d, 9, 100) >= 0 THEN "moderate"
    ELSE "weak or negligible"

\* lines 101-109
direction(r) ==
    IF ~r.nan /\ r.sgn > 0 THEN "positive (increasing)"
    ELSE IF ~r.nan /\ r.sgn < 0 THEN "negative (decreasing)"
    ELSE "no discernable linear"

\* df[[x_col, y_col]].head(5), line 80
small_table(d, x_col, y_col) ==
    LET n == IF NRows(d) < HeadRows THEN NRows(d) ELSE HeadRows
    IN  [k \in 1..n |-> <<Column(d, x_col).vals[k], Column(d, y_col).vals[k]>>]

NoChart == [x |-> "", y |-> "", r |-> NaN4]

Raised(why) ==
    [raised |-> TRUE, reason |-> why, table |-> <<>>, r_value |-> NaN4,
     plot_path |-> "", chart |-> NoChart, strength |-> "", direction |-> "",
     text_r |-> NaN4, r_sq |-> [nan |-> TRUE, num |-> 0, den |-> 1]]

\* perform_analysis, lines 72-116.  Its result, or the exception it raises:
\*  - with no row at all Series.corr returns the Python float nan, which has
\*    no round method: line 83 raises AttributeError before any chart;
\*  - generate_plot raises when the chart cannot be written.
perform_analysis(d, x_col, y_col, io_fault) ==
    LET correlation_r == corr(Column(d, x_col), Column(d, y_col))
        plot == generate_plot(x_col, y_col, round4(correlation_r), io_fault)
    IN  IF NRows(d) = 0 THEN Raised("AttributeError")
        ELSE IF plot.raised THEN Raised("OSError")
        ELSE [raised |-> FALSE, reason |-> "",
              table |-> small_table(d, x_col, y_col),
              r_value |-> round4(correlation_r),
              plot_path |-> plot.path,
              chart |-> plot.chart,
              strength |-> strength(correlation_r),
              direction |-> direction(correlation_r),
              \* the r of the interpretation text, f"{correlation_r:.4f}": the
              \* same nearest multiple of 1e-4 away from ties
              text_r |-> round4(correlation_r),
              \* correlation_r**2, from the unrounded r
              r_sq |-> [nan |-> correlation_r.nan, num |-> correlation_r.n2,
                        den |-> correlation_r.d]]

-----------------------------------------------------------------------------
(* Feature filtering, lines 128-143 of generate_report and 301-311 of main *)

\* the loop over all_numeric_cols: cols is what is left, acc the list so far
RECURSIVE FilterLoop(_, _, _, _)
FilterLoop(d, y, cols, acc) ==
    IF cols = <<>> THEN acc
    ELSE LET col == Head(cols)
         IN  IF col = y THEN FilterLoop(d, y, Tail(cols), acc)
             ELSE IF lower(col) \in IdNames THEN FilterLoop(d, y, Tail(cols), acc)
             ELSE IF StdBelowEps(Column(d, col)) THEN FilterLoop(d, y, Tail(cols), acc)
             ELSE FilterLoop(d, y, Tail(cols), Append(acc, col))

select_features(d, y) == FilterLoop(d, y, numeric_columns(d), <<>>)

-----------------------------------------------------------------------------
(* The run: main() from the button press, lines 297-386 *)

NoPdf == [built |-> FALSE, name |-> "", sections |-> <<>>]

Init ==
    /\ df \in Datasets
    /\ y_feature \in TargetChoices(df)
    /\ pc = "select"
    /\ x_features = <<>>
    /\ i = 0
    /\ results = <<>>
    /\ shown = <<>>
    /\ rx_features = <<>>
    /\ story = <<>>
    /\ pdf = NoPdf
    /\ files = <<>>
    /\ errors = <<>>
    /\ exc = ""
    /\ calls = 0
    /\ faults = 0
    /\ unread = {}
    /\ r_in = <<>>
    /\ labels = <<>>

\* an emptiness test that never finds the list empty
no_features_never(xs) == FALSE

\* `not x_features`, lines 145 and 313
no_features(xs) == xs = <<>>

\* what the environment may do to the next chart write
IoOutcomes == IF faults < MaxFaults THEN {FALSE, TRUE} ELSE {FALSE}

\* lines 301-318: build x_features; with none, st.error and return
MainSelect ==
    /\ pc = "select"
    /\ x_features' = select_features(df, y_feature)
    /\ IF no_features(x_features')
       THEN /\ errors' = Append(errors, [kind |-> "NoEligibleFeatures", target |-> y_feature])
            /\ pc' = "returned"
            /\ i' = 0
       ELSE /\ errors' = errors
            /\ pc' = IF x_features' = <<>> THEN "report" ELSE "analyse"
            /\ i' = 1
    /\ results' = <<>>
    /\ UNCHANGED <<df, y_feature, shown, rx_features, story, pdf, files, exc,
                   calls, faults, unread, r_in, labels>>

\* lines 320-334: one iteration of the live loop.  perform_analysis is called
\* outside any try: what it raises leaves main.
MainAnalyse ==
    /\ pc = "analyse"
    /\ \E io_fault \in IoOutcomes :
         LET x_col == x_features[i]
             out == perform_analysis(df, x_col, y_feature, io_fault)
         IN  /\ calls' = calls + 1
             /\ faults' = IF io_fault THEN faults + 1 ELSE faults
             /\ IF out.raised
                THEN /\ exc' = out.reason
                     /\ pc' = "crashed"
                     /\ UNCHANGED <<results, files, unread, i>>
                ELSE /\ results' = Append(results,
                            [feature |-> x_col, correlation |-> out.r_value,
                             r_squared |-> out.r_sq, strength |-> out.strength,
                             direction |-> out.direction, text_r |-> out.text_r,
                             plot_path |-> out.plot_path, sample_data |-> out.table])
                     /\ files' = (out.plot_path :> out.chart) @@ files
                     /\ unread' = unread \cup {out.plot_path}
                     /\ exc' = exc
                     /\ IF i = Len(x_features)
                        THEN pc' = "display" /\ i' = 1
                        ELSE pc' = pc /\ i' = i + 1
    /\ UNCHANGED <<df, y_feature, x_features, shown, rx_features, story, pdf,
                   errors, r_in, labels>>

\* line 355
direction_icon(r_value) ==
    IF ~r_value.nan /\ r_value.v > 0 THEN "up"
    ELSE IF ~r_value.nan /\ r_value.v < 0 THEN "down"
    ELSE "flat"

\* lines 337-374: one iteration of the display loop; st.image reads the file
MainDisplay ==
    /\ pc = "display"
    /\ LET result == results[i]
       IN  /\ shown' = Append(shown,
                  [feature |-> result.feature, correlation |-> result.correlation,
                   strength |-> result.strength, direction |-> result.direction,
                   icon |-> direction_icon(result.correlation),
                   image |-> files[result.plot_path]])
           /\ unread' = unread \ {result.plot_path}
    /\ IF i = Len(results)
       THEN pc' = "report" /\ i' = 0
       ELSE pc' = pc /\ i' = i + 1
    /\ UNCHANGED <<df, y_feature, x_features, results, rx_features, story, pdf,
                   files, errors, exc, calls, faults, r_in, labels>>

-----------------------------------------------------------------------------
(* generate_report, lines 120-218, called at line 380 *)

NoSection ==
    [kind |-> "", feature |-> "", strength |-> "", direction |-> "",
     text_r |-> NaN4, table |-> <<>>, r_value |-> NaN4, plot_path |-> "",
     image |-> NoChart, figure |-> 0, reason |-> "", target |-> ""]

\* lines 155-160: the title and the "Dependent Variable" heading
TitleSection(y) == [NoSection EXCEPT !.kind = "title", !.target = y]

\* list.index(x) + 1, line 205
RECURSIVE IndexOf(_, _)
IndexOf(xs, x) == IF Head(xs) = x THEN 1 ELSE 1 + IndexOf(Tail(xs), x)

\* lines 167-210: header, interpretation, table, image reference, caption
FeatureSection(xs, x_col, y, out) ==
    [NoSection EXCEPT !.kind = "feature", !.feature = x_col, !.target = y,
                      !.strength = out.strength, !.direction = out.direction,
                      !.text_r = out.text_r, !.table = out.table,
                      !.r_value = out.r_value, !.plot_path = out.plot_path,
                      !.figure = IndexOf(xs, x_col)]

\* an error notice that does not name the feature
ErrorSection_unnamed(x_col, why) ==
    [NoSection EXCEPT !.kind = "error", !.reason = why]

\* lines 212-215: "Analysis Failed for {x_col}: {e}"
ErrorSection(x_col, why) ==
    [NoSection EXCEPT !.kind = "error", !.feature = x_col, !.reason = why]

\* lines 128-160: filter again; with no feature st.error and return None,
\* else open the story with the title
ReportSelect ==
    /\ pc = "report"
    /\ rx_features' = select_features(df, y_feature)
    /\ IF no_features(rx_features')
       THEN /\ errors' = Append(errors, [kind |-> "NoEligibleFeatures", target |-> y_feature])
            /\ pc' = "returned"
            /\ story' = story
       ELSE /\ errors' = errors
            /\ pc' = IF rx_features' = <<>> THEN "build" ELSE "report_loop"
            /\ story' = <<TitleSection(y_feature)>>
    /\ i' = 1
    /\ UNCHANGED <<df, y_feature, x_features, results, shown, pdf, files, exc,
                   calls, faults, unread, r_in, labels>>

\* lines 163-215: one iteration of the loop, inside try/except
ReportAnalyse ==
    /\ pc = "report_loop"
    /\ \E io_fault \in IoOutcomes :
         LET x_col == rx_features[i]
             out == perform_analysis(df, x_col, y_feature, io_fault)
         IN  /\ calls' = calls + 1
             /\ faults' = IF io_fault THEN faults + 1 ELSE faults
             /\ IF out.raised
                THEN /\ story' = Append(story, ErrorSection(x_col, out.reason))
                     /\ UNCHANGED <<files, unread>>
                ELSE /\ story' = Append(story, FeatureSection(rx_features, x_col, y_feature, out))
                     /\ files' = (out.plot_path :> out.chart) @@ files
                     /\ unread' = unread \cup {out.plot_path}
    /\ IF i = Len(rx_features)
       THEN pc' = "build" /\ i' = 0
       ELSE pc' = pc /\ i' = i + 1
    /\ UNCHANGED <<df, y_feature, x_features, results, shown, rx_features, pdf,
                   errors, exc, r_in, labels>>

\* reportlab reads the file of an Image flowable when the document is built
Embed(section) ==
    IF section.kind = "feature"
    THEN [section EXCEPT !.image = files[section.plot_path]]
    ELSE section

\* lines 217-218 and 382-386: doc.build(story), return the file name
ReportBuild ==
    /\ pc = "build"
    /\ pdf' = [built |-> TRUE, name |-> "Comprehensive_Scientific_Report.pdf",
               sections |-> [k \in 1..Len(story) |-> Embed(story[k])]]
    /\ unread' = unread \ { story[k].plot_path : k \in 1..Len(story) }
    /\ pc' = "done"
    /\ UNCHANGED <<df, y_feature, x_features, i, results, shown, rx_features,
                   story, files, errors, exc, calls, faults, r_in, labels>>

Next == MainSelect \/ MainAnalyse \/ MainDisplay \/ ReportSelect \/ ReportAnalyse \/ ReportBuild

Spec == Init /\ [][Next]_vars

-----------------------------------------------------------------------------
(* The classification of lines 86-109 as a function of r alone.            *)
(* r_in holds two values of r, each NaN or k / RGrid; Classify labels both. *)

RValues ==
    {[nan |-> TRUE, k |-> 0]} \cup { [nan |-> FALSE, k |-> k] : k \in -RGrid..RGrid }

AsR(x) == IF x.nan THEN NaN ELSE Real(Sign(x.k), x.k * x.k, RGrid * RGrid)

InitClassify ==
    /\ df = SampleDataset
    /\ y_feature = "SatisfactionScore_100"
    /\ pc = "idle"
    /\ x_features = <<>>
    /\ i = 0
    /\ results = <<>>
    /\ shown = <<>>
    /\ rx_features = <<>>
    /\ story = <<>>
    /\ pdf = NoPdf
    /\ files = <<>>
    /\ errors = <<>>
    /\ exc = ""
    /\ calls = 0
    /\ faults = 0
    /\ unread = {}
    /\ r_in \in RValues \X RValues
    /\ labels = <<>>

Classify ==
    /\ pc = "idle"
    /\ labels = <<>>
    /\ labels' = [j \in 1..2 |-> [strength |-> strength(AsR(r_in[j])),
                                  direction |-> direction(AsR(r_in[j]))]]
    /\ UNCHANGED <<pipeVars, r_in>>

NextClassify == Classify

SpecClassify == InitClassify /\ [][NextClassify]_vars

-----------------------------------------------------------------------------
(* Properties.  The statistics below are written from their textbook       *)
(* formulas, not with the operators of the model.                          *)

\* n * sum(x^2) - sum(x)^2, which is n^2 times the population variance
Spread(c) ==
    LET n == Len(c.vals)
    IN  n * SumSeq([k \in 1..n |-> c.vals[k] * c.vals[k]]) - SumSeq(c.vals) * SumSeq(c.vals)

\* the sample standard deviation exists (two rows or more) and is below 1e-6
SampleStdBelow(c) ==
    LET n == Len(c.vals)
    IN  n >= 2 /\ Spread(c) < Eps * Eps * n * (n - 1)

\* the population standard deviation exceeds 1e-6
PopulationStdExceeds(c) ==
    LET n == Len(c.vals)
    IN  n >= 1 /\ Spread(c) > Eps * Eps * n * n

\* column names that equal an identifier name when case is ignored
IdLike(name) == name \in IdNames \cup {"ObservationID"}

Selected == pc \notin {"select", "idle"}

ReportSelected == pc \in {"report_loop", "build", "done"}

\* the columns, in dataset order, that pass the four tests of the code
EligibleList ==
    SelectSeq(ColumnNames(df),
              LAMBDA n : /\ Column(df, n).dtype # "object"
                         /\ n # y_feature
                         /\ ~IdLike(n)
                         /\ ~SampleStdBelow(Column(df, n)))

\* the same with test (d) as the claim words it
EligibleListAsClaimed ==
    SelectSeq(ColumnNames(df),
              LAMBDA n : /\ Column(df, n).dtype # "object"
                         /\ n # y_feature
                         /\ ~IdLike(n)
                         /\ PopulationStdExceeds(Column(df, n)))

IsSample == df = SampleDataset /\ y_feature = "SatisfactionScore_100"

C2_AsClaimed ==
    Selected =>
        \A k \in 1..Len(x_features) :
            /\ x_features[k] # y_feature
            /\ ~IdLike(x_features[k])
            /\ NRows(df) >= 2
            /\ ~SampleStdBelow(Column(df, x_features[k]))

\* C3: when no column is eligible the run ends with one NoEligibleFeatures
\* error naming the target, perform_analysis is never called, and no document
\* (no story, no pdf) exists
C3_NoEligibleFeatures ==
    (Selected /\ EligibleList = <<>>) =>
        /\ pc = "returned"
        /\ errors = <<[kind |-> "NoEligibleFeatures", target |-> y_feature]>>
        /\ calls = 0
        /\ results = <<>>
        /\ story = <<>>
        /\ ~pdf.built

\* C3 witness: the run has returned on a dataset whose only numeric column
\* besides the target is constant
C3_Witness ==
    /\ pc = "returned"
    /\ errors # <<>>
    /\ NRows(df) >= 2
    /\ y_feature # NoTarget
    /\ \E k \in 1..Len(df) :
          /\ df[k].name # y_feature
          /\ df[k].dtype # "object"
          /\ ~IdLike(df[k].name)
          /\ Spread(df[k]) = 0

\* C4 as claimed: a failing perform_analysis never leaves the run (neither
\* loop lets the exception out), and the finished run holds a document with
\* one section per eligible feature, an error notice for each failed one
C4_AsClaimed ==
    /\ pc # "crashed"
    /\ exc = ""
    /\ pc = "done" =>
          /\ pdf.built
          /\ Len(pdf.sections) = 1 + Len(EligibleList)
          /\ \A k \in 1..Len(EligibleList) :
                /\ pdf.sections[k + 1].feature = EligibleList[k]
                /\ pdf.sections[k + 1].kind \in {"feature", "error"}

Tier(label) ==
    CASE label = "strong" -> 2
      [] label = "moderate" -> 1
      [] OTHER -> 0

\* C5: the strength label follows |r| with bands inclusive below: |r| >= 0.7
\* strong, 0.3 <= |r| < 0.7 moderate, |r| < 0.3 weak or negligible; and for
\* |r1| <= |r2| the tier of r2 is not lower than that of r1
C5_StrengthBands ==
    labels # <<>> =>
        /\ \A j \in 1..2 :
              ~r_in[j].nan =>
                 LET a == Abs(r_in[j].k)
                 IN  /\ 10 * a >= 7 * RGrid => labels[j].strength = "strong"
                     /\ (10 * a >= 3 * RGrid /\ 10 * a < 7 * RGrid)
                            => labels[j].strength = "moderate"
                     /\ 10 * a < 3 * RGrid => labels[j].strength = "weak or negligible"
        /\ (~r_in[1].nan /\ ~r_in[2].nan /\ Abs(r_in[1].k) <= Abs(r_in[2].k))
              => Tier(labels[1].strength) <= Tier(labels[2].strength)

\* C5 witness: r1 = -0.7 was labelled strong and r2 = 0.3 moderate
C5_Witness ==
    /\ labels # <<>>
    /\ ~r_in[1].nan /\ 10 * r_in[1].k = -7 * RGrid
    /\ ~r_in[2].nan /\ 10 * r_in[2].k = 3 * RGrid
    /\ labels[1].strength = "strong"
    /\ labels[2].strength = "moderate"

\* the unrounded correlation of a result of the live loop
ResultR(k) == corr(Column(df, results[k].feature), Column(df, y_feature))

\* C6 as claimed: each result's direction is "positive (increasing)" for
\* r > 0, "negative (decreasing)" for r < 0, "no discernable linear" for
\* r = 0, and "no discernable linear" is produced only when r is exactly 0
C6_AsClaimed ==
    \A k \in 1..Len(results) :
        /\ (~ResultR(k).nan /\ ResultR(k).sgn > 0)
              => results[k].direction = "positive (increasing)"
        /\ (~ResultR(k).nan /\ ResultR(k).sgn < 0)
              => results[k].direction = "negative (decreasing)"
        /\ results[k].direction = "no discernable linear"
              => (~ResultR(k).nan /\ ResultR(k).sgn = 0)

\* C7: a built document is the title section followed by one section per
\* eligible feature, in selection order, a failed feature holding its error
\* notice at its own position
C7_DocumentShape ==
    pdf.built =>
        /\ Len(pdf.sections) = 1 + Len(EligibleList)
        /\ pdf.sections[1].kind = "title"
        /\ pdf.sections[1].target = y_feature
        /\ \A k \in 1..Len(EligibleList) :
              /\ pdf.sections[k + 1].kind \in {"feature", "error"}
              /\ pdf.sections[k + 1].feature = EligibleList[k]
              /\ pdf.sections[k + 1].kind = "feature" => pdf.sections[k + 1].figure = k

\* C7 witness: a document of two feature sections was built, the first of
\* them an error notice
C7_Witness ==
    /\ pdf.built
    /\ Len(pdf.sections) = 3
    /\ pdf.sections[2].kind = "error"
    /\ pdf.sections[3].kind = "feature"

\* C8 as claimed: no result and no document section is produced for a pair
\* in which the feature or the target has zero variance
C8_AsClaimed ==
    /\ \A k \in 1..Len(results) :
          /\ Spread(Column(df, results[k].feature)) # 0
          /\ Spread(Column(df, y_feature)) # 0
    /\ \A k \in 1..Len(story) :
          story[k].kind = "feature" =>
              /\ Spread(Column(df, story[k].feature)) # 0
              /\ Spread(Column(df, y_feature)) # 0

\* every chart shown or embedded is the chart of the pair it stands for
ChartsMatchAtConsumption ==
    /\ \A k \in 1..Len(shown) :
          shown[k].image.x = shown[k].feature /\ shown[k].image.y = y_feature
    /\ \A k \in 1..Len(pdf.sections) :
          pdf.sections[k].kind = "feature" =>
              /\ pdf.sections[k].image.x = pdf.sections[k].feature
              /\ pdf.sections[k].image.y = y_feature

\* C9 as claimed: every chart written in a run is consumed in that run (none
\* is left unread when the run has ended), and each chart consumed is the one
\* rendered for the pair it is shown for
C9_AsClaimed ==
    /\ pc \in {"done", "returned", "crashed"} => unread = {}
    /\ ChartsMatchAtConsumption

\* C10 as claimed: the labels of every result are those the thresholds give
\* to the reported (rounded) r, and the icon the page derives from the
\* reported r agrees with the direction label
C10_AsClaimed ==
    /\ \A k \in 1..Len(results) :
          LET rep == results[k].correlation
          IN  ~rep.nan =>
                /\ Abs(rep.v) >= 7000 => results[k].strength = "strong"
                /\ (Abs(rep.v) >= 3000 /\ Abs(rep.v) < 7000)
                       => results[k].strength = "moderate"
                /\ rep.v = 0 => results[k].direction = "no discernable linear"
                /\ results[k].direction # "no discernable linear" => rep.v # 0
    /\ \A k \in 1..Len(shown) :
          /\ shown[k].icon = "up" => shown[k].direction = "positive (increasing)"
          /\ shown[k].icon = "down" => shown[k].direction = "negative (decreasing)"
          /\ shown[k].icon = "flat" => shown[k].direction = "no discernable linear"

====
